---- MODULE Spec2Model ----
(***************************************************************************)
(* A model of the CompositeKey interning engine of proposal-keyby:         *)
(* CountingWeakMap, AbstractNode / EternalNode / GCNode and CompositeKey,  *)
(* together with the host facilities they rest on (WeakRef, WeakMap,       *)
(* FinalizationRegistry, garbage collection).                              *)
(*                                                                         *)
(* Values are pairs <<kind, n>>:                                           *)
(*   <<"obj", i>>    an ordinary object held (or once held) by user code   *)
(*   <<"prim", i>>   a primitive (number, string, ...)                     *)
(*   <<"rsym", i>>   a registered symbol, Symbol.for(..)                   *)
(*   <<"usym", i>>   a non-registered symbol, Symbol()                     *)
(*   <<"key", h>>    the composite key handle number h                     *)
(*   <<"tok", t>>    the identity token number t (OpaqueId)                *)
(*   <<"marker", 0>> GCNode.#transitionMarker                              *)
(*   <<"gcph", 0>>   EternalNode.#GCPlaceHolder                            *)
(***************************************************************************)
EXTENDS Integers, Sequences, FiniteSets, TLC

\* ------------------------------------------------------------------ bounds
MaxObjs == 1
MaxPrims == 1
MaxLen == 2
MaxKeys == 3
MaxOps == 3
MaxRecords == 2
MaxEntries == 2
MaxCountKeys == 3
MaxCountOps == 5

VARIABLES
    symbolsAsWeakMapKeys, \* the host accepts symbols as WeakMap keys
    nodes,                \* the trie: sequence of node records, nodes[1] is CompositeKey.#root
    tokens,               \* every OpaqueId ever minted: [node, st]
    handles,              \* every CompositeKey ever constructed: [id, values, held]
    userObjs,             \* the objects user code still references
    gone,                 \* the objects the collector has reclaimed
    pool,                 \* the primitives and symbols the program uses in keys
    nesting,              \* whether the program passes composite keys as components
    budget,               \* how many more keys the program constructs
    last,                 \* outcome of the latest public operation
    coll,                 \* the collection the program made: "Map", "Set" or "none"
    keyBy,                \* MapPolyfill.#keyBy: the keyBy of its config, "none" before
    state,                \* MapPolyfill.#state: sequence of [key, pair], in insertion order
    ops,                  \* how many more facade operations the program performs
    out,                  \* outcome of the latest facade operation
    records,              \* every Record made: [entries, ck, called]
    numberForSymbol       \* symbolOrder: the numbers given to non-registered symbols

core == <<symbolsAsWeakMapKeys, nodes, tokens, handles, userObjs, gone, pool, nesting, budget, last>>

facade == <<coll, keyBy, state, ops, out>>

recs == <<records, numberForSymbol>>

vars == <<core, facade, recs>>

Root == 1
Null == <<"null", 0>>
transitionMarker == <<"marker", 0>>
GCPlaceHolder == <<"gcph", 0>>

Objs == {<<"obj", i>> : i \in 1..MaxObjs}
Prims == {<<"prim", i>> : i \in 1..MaxPrims}
RegisteredSymbols == {<<"rsym", 1>>}
UnregisteredSymbols == {<<"usym", 1>>}

Kind(v) == v[1]

\* ------------------------------------------------------- value classifier
isObject(v) == Kind(v) \in {"obj", "key", "tok", "marker", "wrap", "rec"}

isRegistered(v) == Kind(v) = "rsym"

isSymbol(v) == Kind(v) \in {"rsym", "usym"}

\* Symbol.keyFor(v) !== undefined holds exactly for registered symbols
valueWithIdentity(v) ==
    isObject(v) \/ (symbolsAsWeakMapKeys /\ isSymbol(v) /\ isRegistered(v))

\* host: CanBeHeldWeakly, the test WeakMap.prototype.set applies to its key
CanBeHeldWeakly(v) ==
    isObject(v) \/ (symbolsAsWeakMapKeys /\ Kind(v) = "usym")

\* --------------------------------------------------------------- WeakRef
\* WeakRef.prototype.deref on a node's id slot: the token, or 0 for undefined
deref(id) == IF id # 0 /\ tokens[id].st = "live" THEN id ELSE 0

\* ------------------------------------------------------ maps of one node
EmptyMap == [k \in {} |-> 0]

MapRemove(f, key) == [k \in (DOMAIN f) \ {key} |-> f[k]]

MapPut(f, key, v) == [k \in (DOMAIN f) \cup {key} |-> IF k = key THEN v ELSE f[k]]

\* nextNode.size: CountingWeakMap.#size for a GCNode, Map.prototype.size otherwise
size(T, n) ==
    IF T[n].kind = "GC" THEN T[n].size ELSE Cardinality(DOMAIN T[n].nextNode)

has(T, n, k) == k \in DOMAIN T[n].nextNode

get(T, n, k) == T[n].nextNode[k]

\* how many times key k is registered with the #fr of node n's CountingWeakMap
Registrations(T, n, k) ==
    IF k \in DOMAIN T[n].registered THEN T[n].registered[k] ELSE 0

\* an #increment that does not register the key with #fr
increment_withoutRegister(T, n, k) == [T EXCEPT ![n].size = @ + 1]

\* CountingWeakMap.#increment(k): #size++ and #fr.register(k, null, k)
increment(T, n, k) ==
    [T EXCEPT ![n].size = @ + 1,
              ![n].registered = MapPut(@, k, Registrations(T, n, k) + 1)]

\* a set that counts every call
set_countsEveryCall(T, n, k, v) ==
    LET T1 == [T EXCEPT ![n].nextNode = MapPut(@, k, v)]
    IN  IF T[n].kind = "GC" THEN increment(T1, n, k) ELSE T1

\* CountingWeakMap.set / Map.prototype.set, for a key WeakMap accepts
set(T, n, k, v) ==
    LET newEntry == ~has(T, n, k)
        T1 == [T EXCEPT ![n].nextNode = MapPut(@, k, v)]
    IN  IF T[n].kind = "GC" /\ newEntry THEN increment(T1, n, k) ELSE T1

RECURSIVE examineSelf(_, _), purge(_, _, _), decrement(_, _), delete(_, _, _)

\* an examineSelf that never asks the parent to purge
examineSelf_keepsNode(T, n) == T

\* an examineSelf that does not look at the node's token
examineSelf_ignoresToken(T, n) ==
    IF size(T, n) # 0 THEN T
    ELSE IF T[n].parent = 0 THEN T
    ELSE purge(T, T[n].parent, T[n].keyInParent)

\* an examineSelf that replaces a parentless node it finds empty by a new one
examineSelf_replacesRoot(T, n) ==
    IF size(T, n) # 0 THEN T
    ELSE IF deref(T[n].id) # 0 THEN T
    ELSE IF T[n].parent = 0 THEN [T EXCEPT ![n] = [kind |-> "GC", parent |-> 0,
             keyInParent |-> Null, id |-> 0, nextNode |-> EmptyMap, size |-> 0, pending |-> 0,
             registered |-> EmptyMap]]
    ELSE purge(T, T[n].parent, T[n].keyInParent)

\* AbstractNode.examineSelf
examineSelf(T, n) ==
    IF size(T, n) # 0 THEN T
    ELSE IF deref(T[n].id) # 0 THEN T
    ELSE IF T[n].parent = 0 THEN T
    ELSE purge(T, T[n].parent, T[n].keyInParent)

\* a purge that removes the entry and leaves the node itself unexamined
purge_withoutExamine(T, n, key) == delete(T, n, key)

\* AbstractNode.purge
purge(T, n, key) == examineSelf(delete(T, n, key), n)

\* CountingWeakMap.#decrement, onEmpty being () => this.examineSelf()
decrement(T, n) ==
    LET T1 == [T EXCEPT ![n].size = @ - 1]
    IN  IF T1[n].size = 0 THEN examineSelf(T1, n) ELSE T1

\* a delete that leaves the key registered with #fr
delete_withoutUnregister(T, n, k) ==
    IF ~has(T, n, k) THEN T
    ELSE LET T1 == [T EXCEPT ![n].nextNode = MapRemove(@, k)]
         IN  IF T[n].kind = "GC" THEN decrement(T1, n) ELSE T1

\* CountingWeakMap.delete (with #fr.unregister(k)) / Map.prototype.delete
delete(T, n, k) ==
    IF ~has(T, n, k) THEN T
    ELSE LET T1 == [T EXCEPT ![n].nextNode = MapRemove(@, k)]
         IN  IF T[n].kind = "GC"
             THEN decrement([T1 EXCEPT ![n].registered = MapRemove(@, k)], n)
             ELSE T1

\* ------------------------------------------------------------- the nodes
\* new GCNode(parent, key) / new EternalNode(parent, key)
NewNode(kind, parent, key) ==
    [kind |-> kind, parent |-> parent, keyInParent |-> key, id |-> 0,
     nextNode |-> EmptyMap, size |-> 0, pending |-> 0, registered |-> EmptyMap]

\* a mapGetOrInsert that calls the factory and sets the entry also when the
\* map has the key
mapGetOrInsert_alwaysInserts(T, n, key, kind) ==
    IF T[n].kind = "GC" /\ ~CanBeHeldWeakly(key) THEN [T |-> T, v |-> 0]
    ELSE LET v == Len(T) + 1
         IN  [T |-> set(Append(T, NewNode(kind, n, key)), n, key, v), v |-> v]

\* mapGetOrInsert(map, key, factory); v = 0 stands for the TypeError that
\* WeakMap.prototype.set raises for a key that cannot be held weakly
mapGetOrInsert(T, n, key, kind) ==
    IF has(T, n, key) THEN [T |-> T, v |-> get(T, n, key)]
    ELSE IF T[n].kind = "GC" /\ ~CanBeHeldWeakly(key) THEN [T |-> T, v |-> 0]
    ELSE LET v == Len(T) + 1
         IN  [T |-> set(Append(T, NewNode(kind, n, key)), n, key, v), v |-> v]

isCompositeKey(v) == Kind(v) = "key"

getKeyIdentity(v) == <<"tok", handles[v[2]].id>>

RECURSIVE EternalNode_getId(_, _, _, _)
\* a descent that stops one element early and reports the index past the end
EternalNode_getId_stopsEarly(T, n, values, index) ==
    IF index >= Len(values) THEN [T |-> T, node |-> n, index |-> index + 1]
    ELSE LET head == IF valueWithIdentity(values[index]) THEN GCPlaceHolder
                     ELSE values[index]
             r == mapGetOrInsert(T, n, head, "Eternal")
         IN  EternalNode_getId(r.T, r.v, values, index + 1)

\* a descent that passes over identity-bearing values without a placeholder
EternalNode_getId_noPlaceHolder(T, n, values, index) ==
    IF index > Len(values) THEN [T |-> T, node |-> n, index |-> index]
    ELSE IF valueWithIdentity(values[index])
         THEN EternalNode_getId(T, n, values, index + 1)
         ELSE LET r == mapGetOrInsert(T, n, values[index], "Eternal")
              IN  EternalNode_getId(r.T, r.v, values, index + 1)

\* a descent that hands over to super.getId one element early
EternalNode_getId_earlySuper(T, n, values, index) ==
    IF index >= Len(values) THEN [T |-> T, node |-> n, index |-> index]
    ELSE LET head == IF valueWithIdentity(values[index]) THEN GCPlaceHolder
                     ELSE values[index]
             r == mapGetOrInsert(T, n, head, "Eternal")
         IN  EternalNode_getId(r.T, r.v, values, index + 1)

\* EternalNode.getId up to the call of super.getId: [T, node, index], index
\* being one more than the index of the code (sequences start at 1)
EternalNode_getId(T, n, values, index) ==
    IF index > Len(values) THEN [T |-> T, node |-> n, index |-> index]
    ELSE LET head == IF valueWithIdentity(values[index]) THEN GCPlaceHolder
                     ELSE values[index]
             r == mapGetOrInsert(T, n, head, "Eternal")
         IN  EternalNode_getId(r.T, r.v, values, index + 1)

RECURSIVE GCNode_getId(_, _, _, _, _)
\* a descent that forgets the eternal values it passed over
GCNode_getId_noTransition(T, n, values, index, seenEternal) ==
    IF index > Len(values) THEN [T |-> T, node |-> n, index |-> index]
    ELSE IF ~valueWithIdentity(values[index]) THEN
        GCNode_getId(T, n, values, index + 1, TRUE)
    ELSE
        LET head == IF isCompositeKey(values[index])
                    THEN getKeyIdentity(values[index]) ELSE values[index]
            r == mapGetOrInsert(T, n, head, "GC")
        IN  IF r.v = 0 THEN [T |-> r.T, node |-> 0, index |-> index]
            ELSE GCNode_getId(r.T, r.v, values, index + 1, seenEternal)

\* a descent that enters the eternal sub-trie at the end of every sequence
GCNode_getId_alwaysTransition(T, n, values, index, seenEternal) ==
    IF index > Len(values) THEN
        LET r == mapGetOrInsert(T, n, transitionMarker, "Eternal")
        IN  EternalNode_getId(r.T, r.v, values, 1)
    ELSE IF ~valueWithIdentity(values[index]) THEN
        GCNode_getId(T, n, values, index + 1, TRUE)
    ELSE
        LET head == IF isCompositeKey(values[index])
                    THEN getKeyIdentity(values[index]) ELSE values[index]
            r == mapGetOrInsert(T, n, head, "GC")
        IN  IF r.v = 0 THEN [T |-> r.T, node |-> 0, index |-> index]
            ELSE GCNode_getId(r.T, r.v, values, index + 1, seenEternal)

\* GCNode.getId up to the call of super.getId: [T, node, index], node = 0 when
\* mapGetOrInsert threw
GCNode_getId(T, n, values, index, seenEternal) ==
    IF index > Len(values) THEN
        IF seenEternal THEN
            LET r == mapGetOrInsert(T, n, transitionMarker, "Eternal")
            IN  EternalNode_getId(r.T, r.v, values, 1)
        ELSE [T |-> T, node |-> n, index |-> index]
    ELSE IF ~valueWithIdentity(values[index]) THEN
        GCNode_getId(T, n, values, index + 1, TRUE)
    ELSE
        LET head == IF isCompositeKey(values[index])
                    THEN getKeyIdentity(values[index]) ELSE values[index]
            r == mapGetOrInsert(T, n, head, "GC")
        IN  IF r.v = 0 THEN [T |-> r.T, node |-> 0, index |-> index]
            ELSE GCNode_getId(r.T, r.v, values, index + 1, seenEternal)

\* AbstractNode.generateId: token number Len(tokens) + 1 is minted and
\* registered with AbstractNode.#fr, held value the node
generateId(n) == [node |-> n, st |-> "live"]

\* a comparison of the handles themselves
equal_byHandle(a, b) == a = b

\* CompositeKey.equal
equal(a, b) == handles[a].id = handles[b].id

\* ------------------------------------------------ host: the collector
Held == {h \in 1..Len(handles) : handles[h].held}

\* strong roots: the static #root, the held values of AbstractNode.#fr (kept
\* until their callback has run) and the maps whose registry has a callback queued
RootNodes ==
    {Root} \cup {tokens[t].node : t \in {u \in 1..Len(tokens) : tokens[u].st # "finalized"}}
           \cup {n \in 1..Len(nodes) : nodes[n].pending > 0}

RootKeys == userObjs \cup {<<"tok", handles[h].id>> : h \in Held}

\* one round of marking: parents and #keyInParent strongly, the children of a
\* Map strongly, the children of a WeakMap only under a marked key (ephemeron)
Mark(R) ==
    LET N == R.N \cup {nodes[n].parent : n \in {m \in R.N : nodes[m].parent # 0}}
                 \cup UNION {{nodes[n].nextNode[k] :
                                k \in {j \in DOMAIN nodes[n].nextNode :
                                         \/ nodes[n].kind = "Eternal"
                                         \/ j = transitionMarker
                                         \/ j \in R.K}} : n \in R.N}
        K == R.K \cup {nodes[n].keyInParent : n \in R.N}
    IN  [N |-> N, K |-> K]

RECURSIVE MarkAll(_)
MarkAll(R) == LET R2 == Mark(R) IN IF R2 = R THEN R ELSE MarkAll(R2)

Reachable == MarkAll([N |-> RootNodes, K |-> RootKeys])

\* what the collector may reclaim now: live tokens and objects nothing reaches
Garbage ==
    {x \in {<<"tok", t>> : t \in {u \in 1..Len(tokens) : tokens[u].st = "live"}}
           \cup (Objs \ gone) : x \notin Reachable.K}

\* the WeakMap entries keyed by x disappear, and each CountingWeakMap.#fr gets
\* one callback queued for every registration of x it holds
Reclaim(T, x) ==
    [n \in 1..Len(T) |->
        IF T[n].kind = "GC"
        THEN [T[n] EXCEPT !.nextNode = MapRemove(@, x),
                          !.pending = @ + Registrations(T, n, x),
                          !.registered = MapRemove(@, x)]
        ELSE T[n]]

\* --------------------------------------------------------------- actions
Other == [op |-> "other", values |-> <<>>, result |-> 0, error |-> "none"]

\* assert(v): whether it returns; it throws an Error otherwise
assert(v) == v = TRUE

\* the values user code can put into a key
Values == userObjs \cup pool
          \cup {<<"key", h>> : h \in {g \in Held : nesting /\ \A f \in Held : equal(f, g) => g <= f}}

RECURSIVE SeqsUpTo(_, _)
SeqsUpTo(S, n) ==
    IF n = 0 THEN {<<>>}
    ELSE LET P == SeqsUpTo(S, n - 1)
         IN  P \cup {Append(q, x) : q \in {r \in P : Len(r) = n - 1}, x \in S}

\* a terminal node that never finds its token again
AbstractNode_getId_alwaysMints(T, n) == 0

\* AbstractNode.getId, the left operand this.id?.deref(): the token the
\* terminal node still has, or 0 and generateId will mint one
AbstractNode_getId(T, n) == deref(T[n].id)

\* a sequence with every composite key replaced by its identity token
Canon(values) ==
    [i \in 1..Len(values) |->
        IF isCompositeKey(values[i]) THEN getKeyIdentity(values[i]) ELSE values[i]]

\* CompositeKey.#root.getId(values) evaluated in the current state: the trie
\* after the descent, the terminal node (0: the descent threw) and the token
\* this.id?.deref() found there (0: none, generateId will mint one)
getId(values) ==
    LET r == GCNode_getId(nodes, Root, values, 1, FALSE)
    IN  [T |-> r.T, node |-> r.node, index |-> r.index,
         id |-> IF r.node = 0 THEN 0 ELSE AbstractNode_getId(r.T, r.node)]

\* a constructor that hands out the held key that already carries the token
CompositeKey_interned(id) ==
    LET same == {h \in 1..Len(handles) : handles[h].held /\ handles[h].id = id}
    IN  IF same # {} THEN CHOOSE h \in same : TRUE ELSE Len(handles) + 1

\* the object a call of the CompositeKey constructor returns for token id: the
\* constructor has no return statement, so it is the newly allocated this
CompositeKey(id) == Len(handles) + 1

\* new CompositeKey(...values); error is what the call threw: "TypeError" from
\* WeakMap.prototype.set, "Error" from a failed assert of AbstractNode.getId
Construct(values) ==
    /\ budget > 0
    /\ budget' = budget - 1
    /\ LET r == getId(values)
           id == IF r.id # 0 THEN r.id ELSE Len(tokens) + 1
           key == CompositeKey(id)
       IN  IF r.node = 0 THEN
               /\ nodes' = r.T
               /\ last' = [op |-> "construct", values |-> Canon(values), result |-> 0,
                           error |-> "TypeError"]
               /\ UNCHANGED <<tokens, handles>>
           ELSE IF ~assert(r.index - 1 >= Len(values)) THEN
               /\ nodes' = r.T
               /\ last' = [op |-> "construct", values |-> Canon(values), result |-> 0,
                           error |-> "Error"]
               /\ UNCHANGED <<tokens, handles>>
           ELSE
               /\ tokens' = IF r.id # 0 THEN tokens
                            ELSE Append(tokens, generateId(r.node))
               /\ nodes' = [r.T EXCEPT ![r.node].id = id]
               /\ IF assert(tokens'[id].st = "live") THEN
                      /\ handles' = IF key > Len(handles)
                                    THEN Append(handles,
                                        [id |-> id, values |-> Canon(values), held |-> TRUE])
                                    ELSE handles
                      /\ last' = [op |-> "construct", values |-> Canon(values),
                                  result |-> key, error |-> "none"]
                  ELSE
                      /\ handles' = handles
                      /\ last' = [op |-> "construct", values |-> Canon(values),
                                  result |-> 0, error |-> "Error"]
    /\ UNCHANGED <<symbolsAsWeakMapKeys, pool, nesting, userObjs, gone>>

\* user code lets go of a composite key
DropKey(h) ==
    /\ h \in Held
    /\ handles' = [handles EXCEPT ![h] = [id |-> 0, values |-> <<>>, held |-> FALSE]]
    /\ last' = Other
    /\ budget' = budget
    /\ UNCHANGED <<symbolsAsWeakMapKeys, pool, nesting, nodes, tokens, userObjs, gone>>

\* user code lets go of an object
DropObject(o) ==
    /\ o \in userObjs
    /\ userObjs' = userObjs \ {o}
    /\ last' = Other
    /\ budget' = budget
    /\ UNCHANGED <<symbolsAsWeakMapKeys, pool, nesting, nodes, tokens, handles, gone>>

\* the collector reclaims one unreachable token or object
Collect(x) ==
    /\ x \in Garbage
    /\ nodes' = Reclaim(nodes, x)
    /\ IF Kind(x) = "tok"
       THEN /\ tokens' = [tokens EXCEPT ![x[2]].st = "cleared"]
            /\ gone' = gone
       ELSE /\ gone' = gone \cup {x}
            /\ tokens' = tokens
    /\ last' = Other
    /\ budget' = budget
    /\ UNCHANGED <<symbolsAsWeakMapKeys, pool, nesting, handles, userObjs>>

\* AbstractNode.#fr runs its callback for a reclaimed token
TokenFinalized(t) ==
    /\ t \in 1..Len(tokens)
    /\ tokens[t].st = "cleared"
    /\ tokens' = [tokens EXCEPT ![t] = [node |-> 0, st |-> "finalized"]]
    /\ nodes' = examineSelf(nodes, tokens[t].node)
    /\ last' = Other
    /\ budget' = budget
    /\ UNCHANGED <<symbolsAsWeakMapKeys, pool, nesting, handles, userObjs, gone>>

\* CountingWeakMap.#fr of node n runs its callback for a reclaimed key
KeyFinalized(n) ==
    /\ n \in 1..Len(nodes)
    /\ nodes[n].pending > 0
    /\ nodes' = decrement([nodes EXCEPT ![n].pending = @ - 1], n)
    /\ last' = Other
    /\ budget' = budget
    /\ UNCHANGED <<symbolsAsWeakMapKeys, pool, nesting, tokens, handles, userObjs, gone>>

\* the programs explored: the host, the values the program puts into keys,
\* whether it nests keys, and how many keys it constructs
Programs ==
    {[host |-> TRUE, vals |-> Objs \cup Prims, nest |-> TRUE, keys |-> MaxKeys],
     [host |-> FALSE, vals |-> {}, nest |-> TRUE, keys |-> MaxKeys + 1],
     [host |-> TRUE, vals |-> Objs \cup RegisteredSymbols \cup UnregisteredSymbols,
      nest |-> FALSE, keys |-> MaxKeys],
     [host |-> FALSE, vals |-> RegisteredSymbols \cup UnregisteredSymbols,
      nest |-> FALSE, keys |-> MaxKeys]}

\* ------------------------------------------------- Map and Set facade
Undefined == <<"undefined", 0>>
PosZero == <<"prim", 0>>
NegZero == <<"negzero", 0>>
TypeError == <<"TypeError", 0>>
True == <<"boolean", 1>>
False == <<"boolean", 0>>

Idle == [op |-> "none", k |-> Null, v |-> Null, result |-> Null]

\* the values a program stores under its keys
MapValues == {<<"val", 1>>, <<"val", 2>>}

\* the keys a program uses with a collection: zeros of either sign, plain
\* objects, composite keys, and for every composite key an object that carries
\* it (as its property "key" and as the result of its Symbol.keyBy method)
MapKeys ==
    {PosZero, NegZero} \cup userObjs
        \cup {<<"key", h>> : h \in Held} \cup {<<"wrap", h>> : h \in Held}

\* what a config can have as its keyBy; "absent": no config or no such property
Configs == {"absent", "undefined", "trySymbol", "prop", "null", "number"}

\* a constructor that takes whatever keyBy it is given
isFunction_unchecked(cfg) == TRUE

\* typeof keyByConfig === "function"
isFunction(cfg) == cfg \in {"trySymbol", "prop"}

\* a trySymbol that returns every value as it is
trySymbol_unchanged(v) == v

\* trySymbol(v): v[Symbol.keyBy]() where v has such a method. A composite key
\* returns itself, a Record its memoised key
trySymbol(v) ==
    IF isObject(v) THEN
        CASE Kind(v) = "wrap" -> <<"key", v[2]>>
          [] Kind(v) = "rec" -> <<"key", records[v[2]].ck>>
          [] OTHER -> v
    ELSE v

\* keyByConfig(v) for the two functions programs configure: trySymbol
\* (usingKeys) and v => v.key
keyByConfig(cfg, v) ==
    IF cfg = "trySymbol" THEN trySymbol(v)
    ELSE IF Kind(v) = "wrap" THEN <<"key", v[2]>> ELSE Undefined

\* a #keyBy that keeps the composite key the projection returned
MapPolyfill_keyBy_noToken(cfg, v) ==
    IF cfg = "undefined" THEN v ELSE keyByConfig(cfg, v)

\* a #keyBy that replaces composite keys also when no keyBy was configured
MapPolyfill_keyBy_always(cfg, v) ==
    LET k == IF cfg = "undefined" THEN v ELSE keyByConfig(cfg, v)
    IN  IF isCompositeKey(k) THEN getKeyIdentity(k) ELSE k

\* MapPolyfill.#keyBy as the constructor sets it up for the keyBy cfg
MapPolyfill_keyBy(cfg, v) ==
    IF cfg = "undefined" THEN v
    ELSE LET k == keyByConfig(cfg, v)
         IN  IF isCompositeKey(k) THEN getKeyIdentity(k) ELSE k

\* host Map: keys are compared by SameValueZero, -0 is stored as +0
SameValueZero(k) == IF k = NegZero THEN PosZero ELSE k

IndexOf(st, k) ==
    LET I == {i \in 1..Len(st) : st[i].key = SameValueZero(k)}
    IN  IF I = {} THEN 0 ELSE CHOOSE i \in I : TRUE

\* Map.prototype.set of the host, on #state
OriginalMap_set(st, k, pair) ==
    LET i == IndexOf(st, k)
        e == [key |-> SameValueZero(k), pair |-> pair]
    IN  IF i = 0 THEN Append(st, e) ELSE [st EXCEPT ![i] = e]

\* Map.prototype.delete of the host, on #state
OriginalMap_delete(st, k) ==
    LET i == IndexOf(st, k)
    IN  IF i = 0 THEN st
        ELSE [j \in 1..(Len(st) - 1) |-> IF j < i THEN st[j] ELSE st[j + 1]]

\* MapPolyfill.get
Map_get(k) ==
    LET i == IndexOf(state, MapPolyfill_keyBy(keyBy, k))
    IN  IF i = 0 THEN Undefined ELSE state[i].pair[2]

\* MapPolyfill.has
Map_has(k) == IndexOf(state, MapPolyfill_keyBy(keyBy, k)) # 0

\* MapPolyfill.set: the new #state
Map_set(st, cfg, k, v) == OriginalMap_set(st, MapPolyfill_keyBy(cfg, k), <<k, v>>)

\* MapPolyfill.delete: the argument goes to #state.delete as it is
Map_delete(st, k) == OriginalMap_delete(st, k)

\* MapPolyfill.size
Map_size == Len(state)

\* a keys() that iterates #state itself and so yields its internal keys
Map_keys_internal == [i \in 1..Len(state) |-> state[i].key]

\* MapPolyfill.keys
Map_keys == [i \in 1..Len(state) |-> state[i].pair[1]]

\* MapPolyfill.values
Map_values == [i \in 1..Len(state) |-> state[i].pair[2]]

\* MapPolyfill.entries, also MapPolyfill[Symbol.iterator]
Map_entries == [i \in 1..Len(state) |-> state[i].pair]

\* SetPolyFill.keys, also SetPolyFill.values and SetPolyFill[Symbol.iterator]
Set_keys == Map_keys

\* SetPolyFill.entries
Set_entries == Map_entries

RECURSIVE SetAll(_, _, _, _)
\* the constructor's loop: for (const [k, v] of values) this.set(k, v)
SetAll(st, cfg, values, index) ==
    IF index > Len(values) THEN st
    ELSE SetAll(Map_set(st, cfg, values[index][1], values[index][2]), cfg, values, index + 1)

\* the initial entries a program passes to the constructor
InitialEntries(c) ==
    LET Ks == SeqsUpTo(userObjs \cup {PosZero}, 1)
    IN  {[i \in 1..Len(ks) |-> <<ks[i], IF c = "Set" THEN ks[i] ELSE <<"val", 1>>>>] : ks \in Ks}

\* new Map(values, config) / new Set(values, config)
NewCollection(c, cfg, values) ==
    /\ coll = "none"
    /\ ops > 0
    /\ ops' = ops - 1
    /\ IF cfg \notin {"absent", "undefined"} /\ ~isFunction(cfg) THEN
           /\ out' = [op |-> "new", k |-> cfg, v |-> values, result |-> TypeError]
           /\ UNCHANGED <<coll, keyBy, state>>
       ELSE
           /\ coll' = c
           /\ keyBy' = IF isFunction(cfg) THEN cfg ELSE "undefined"
           /\ state' = SetAll(<<>>, keyBy', values, 1)
           /\ out' = [op |-> "new", k |-> cfg, v |-> values, result |-> <<c, 0>>]
    /\ UNCHANGED <<core, recs>>

\* MapPolyfill.set(k, v)
Set(k, v) ==
    /\ coll = "Map"
    /\ ops > 0
    /\ ops' = ops - 1
    /\ state' = Map_set(state, keyBy, k, v)
    /\ out' = [op |-> "set", k |-> k, v |-> v, result |-> <<coll, 0>>]
    /\ UNCHANGED <<coll, keyBy, core, recs>>

\* SetPolyFill.add(v)
Add(v) ==
    /\ coll = "Set"
    /\ ops > 0
    /\ ops' = ops - 1
    /\ state' = Map_set(state, keyBy, v, v)
    /\ out' = [op |-> "add", k |-> v, v |-> v, result |-> <<coll, 0>>]
    /\ UNCHANGED <<coll, keyBy, core, recs>>

\* MapPolyfill.delete(k) / SetPolyFill.delete(v)
Delete(k) ==
    /\ coll # "none"
    /\ ops > 0
    /\ ops' = ops - 1
    /\ state' = Map_delete(state, k)
    /\ out' = [op |-> "delete", k |-> k, v |-> Null,
                result |-> IF IndexOf(state, k) # 0 THEN True ELSE False]
    /\ UNCHANGED <<coll, keyBy, core, recs>>

\* MapPolyfill.forEach(mapper): the host's Map.prototype.forEach calls its
\* callback with (value, key, map) of #state, so the arrow's k is the stored
\* pair [k, v] and its v the internal key; the mapper is called with
\* this = thisArg (undefined) and the arguments (pair, internal key, the Map)
Map_forEach ==
    [i \in 1..Len(state) |->
        [this |-> Undefined,
         args |-> <<<<"pair", state[i].pair[1], state[i].pair[2]>>, state[i].key, <<"Map", 0>>>>]]

\* SetPolyFill.forEach(mapper): #state is a MapPolyfill, whose forEach hands the
\* arrow (pair, internal key, #state); the mapper is called with
\* this = the internal key and the Set as its only argument
Set_forEach ==
    [i \in 1..Len(Map_forEach) |->
        [this |-> Map_forEach[i].args[2], args |-> <<<<"Set", 0>>>>]]

\* m.forEach(mapper) / s.forEach(mapper): the calls the mapper receives
ForEach ==
    /\ coll # "none"
    /\ ops > 0
    /\ ops' = ops - 1
    /\ out' = [op |-> "forEach", k |-> Null, v |-> Null,
                result |-> <<"calls", IF coll = "Map" THEN Map_forEach ELSE Set_forEach>>]
    /\ UNCHANGED <<coll, keyBy, state, core, recs>>

\* ------------------------------------------------------- brand and misuse
\* the values a program passes where a composite key is expected
BrandValues == MapKeys \cup pool \cup {Undefined, Null}

\* #id in v, for an object v: the private field is there
hasId(v) == Kind(v) = "key"

\* an equal that reads the identity as an ordinary property, absent (undefined)
\* on everything that is no composite key
CompositeKey_equal_unbranded(a, b) ==
    LET idOf(v) == IF hasId(v) THEN handles[v[2]].id ELSE 0
    IN  IF idOf(a) = idOf(b) THEN True ELSE False

\* CompositeKey.equal(a, b) on any two values: a.#id and b.#id throw a
\* TypeError on a value without the private field
CompositeKey_equal(a, b) ==
    IF ~hasId(a) \/ ~hasId(b) THEN TypeError
    ELSE IF equal(a[2], b[2]) THEN True ELSE False

\* the getter of CompositeKey.prototype[Symbol.toStringTag] called on receiver
toStringTag(receiver) ==
    IF ~isObject(receiver) \/ ~hasId(receiver) THEN TypeError
    ELSE <<"CompositeKey", 0>>

\* CompositeKey.equal(a, b)
Equal(a, b) ==
    /\ ops > 0
    /\ ops' = ops - 1
    /\ out' = [op |-> "equal", k |-> a, v |-> b, result |-> CompositeKey_equal(a, b)]
    /\ UNCHANGED <<coll, keyBy, state, core, recs>>

\* Object.getOwnPropertyDescriptor(CompositeKey.prototype, Symbol.toStringTag).get.call(v)
ToStringTag(v) ==
    /\ ops > 0
    /\ ops' = ops - 1
    /\ out' = [op |-> "toStringTag", k |-> v, v |-> Null, result |-> toStringTag(v)]
    /\ UNCHANGED <<coll, keyBy, state, core, recs>>

\* --------------------------------------------------------------- Records
\* const RecordNamespace = Symbol(): a non-registered symbol of the polyfill
RecordNamespace == <<"usym", 0>>

\* property names: "\u00e9", "e\u0301" (canonically equivalent to the first) and "x"
Strings == {<<"str", 1>>, <<"str", 2>>, <<"str", 3>>}

\* Symbol.for("a"), Symbol.for("b")
RecordRegistered == {<<"rsym", 1>>, <<"rsym", 2>>}

RecordUnregistered == {<<"usym", 1>>, <<"usym", 2>>}

\* Symbol.keyFor(s) of a registered symbol: its name, "a" or "b"
keyFor(s) == <<"str", 3 + s[2]>>

\* the collation key of a string: canonically equivalent strings share it
CollationKey(str) == IF str[2] = 1 THEN 2 ELSE str[2]

Sign(n) == IF n < 0 THEN -1 ELSE IF n > 0 THEN 1 ELSE 0

\* String.prototype.localeCompare: 0 for canonically equivalent strings
localeCompare(s1, s2) == Sign(CollationKey(s1) - CollationKey(s2))

\* symbolOrder's compare(s1, s2), num being numberForSymbol after the numbers
\* this sort hands out
symbolOrder(num, s1, s2) ==
    IF isRegistered(s1) THEN
        IF isRegistered(s2) THEN localeCompare(keyFor(s1), keyFor(s2)) ELSE -1
    ELSE IF isRegistered(s2) THEN 1
    ELSE num[s1] - num[s2]

\* compareKeys(k1, k2)
compareKeys(num, k1, k2) ==
    IF isSymbol(k1) THEN
        IF isSymbol(k2) THEN symbolOrder(num, k1, k2) ELSE -1
    ELSE IF isSymbol(k2) THEN 1
    ELSE localeCompare(k1, k2)

\* one step of a stable sort: x goes behind the last element not greater than it
SortInsert(num, sorted, x) ==
    LET Before == {i \in 1..Len(sorted) : compareKeys(num, sorted[i][1], x[1]) <= 0}
        at == IF Before = {} THEN 0 ELSE CHOOSE i \in Before : \A j \in Before : j <= i
    IN  SubSeq(sorted, 1, at) \o <<x>> \o SubSeq(sorted, at + 1, Len(sorted))

RECURSIVE SortEntries(_, _, _)
\* Array.prototype.sort with compareKeys (a stable sort) on the first n entries
SortEntries(num, entries, n) ==
    IF n = 0 THEN <<>>
    ELSE SortInsert(num, SortEntries(num, entries, n - 1), entries[n])

RECURSIVE Flatten(_, _)
\* flatMap((k) => [k, trySymbol(r[k])])
Flatten(entries, n) ==
    IF n = 0 THEN <<>>
    ELSE Flatten(entries, n - 1) \o <<entries[n][1], trySymbol(entries[n][2])>>

\* the arguments keyForRecord passes to new CompositeKey
keyForRecord(num, entries) ==
    <<RecordNamespace>> \o Flatten(SortEntries(num, entries, Len(entries)), Len(entries))

\* the non-registered symbols that the comparisons of one sort give a number:
\* getNumberForSymbol runs only when two of them are compared
NewlyNumbered(entries) ==
    LET U == {entries[i][1] : i \in 1..Len(entries)} \cap RecordUnregistered
    IN  IF Cardinality(U) >= 2 THEN U \ DOMAIN numberForSymbol ELSE {}

\* the ways the sort can hand out nextNumber++ to them: which of two symbols is
\* seen first depends on the argument order the host's sort uses
Numberings(entries) ==
    LET New == NewlyNumbered(entries)
        n == Cardinality(DOMAIN numberForSymbol)
    IN  {[u \in DOMAIN numberForSymbol \cup New |->
            IF u \in New THEN f[u] ELSE numberForSymbol[u]] :
         f \in {g \in [New -> n..(n + Cardinality(New) - 1)] :
                    \A a, b \in New : a # b => g[a] # g[b]}}

\* the property names and symbols a program uses in its Records
RecordKeys == pool \cap (Strings \cup RecordRegistered \cup RecordUnregistered)

\* the Records whose key has been taken
Keyed == {<<"rec", i>> : i \in {j \in 1..Len(records) : records[j].ck # 0}}

\* the values a program gives to the properties of its Records: two plain
\* values, or one plain value and the Records whose key has been taken
RecordValues == IF nesting THEN {<<"val", 1>>} \cup Keyed ELSE MapValues

\* own properties of the argument of Record, in the order of Reflect.ownKeys:
\* strings before symbols, each in insertion order
RecordArgs ==
    {es \in SeqsUpTo(RecordKeys \X RecordValues, MaxEntries) :
        /\ \A i, j \in 1..Len(es) : i # j => es[i][1] # es[j][1]
        /\ \A i, j \in 1..Len(es) : (i < j /\ isSymbol(es[i][1])) => isSymbol(es[j][1])}

\* Record(obj)
Record(entries) ==
    /\ budget > 0
    /\ \A r \in 1..Len(records) : records[r].called
    /\ records' = Append(records, [entries |-> entries, ck |-> 0, called |-> FALSE])
    /\ out' = [op |-> "Record", k |-> <<"rec", Len(records) + 1>>, v |-> Null,
                result |-> <<"rec", Len(records) + 1>>]
    /\ UNCHANGED <<coll, keyBy, state, ops, core, numberForSymbol>>

\* r[Symbol.keyBy](): () => ck ??= keyForRecord(r)
Record_keyBy(r) ==
    /\ r \in 1..Len(records)
    /\ records[r].ck = 0
    /\ ~records[r].called
    /\ \E num \in Numberings(records[r].entries) :
          /\ numberForSymbol' = num
          /\ Construct(keyForRecord(num, records[r].entries))
    /\ records' = [records EXCEPT ![r].ck = last'.result, ![r].called = TRUE]
    /\ out' = [op |-> "keyBy", k |-> <<"rec", r>>, v |-> Null,
                result |-> IF last'.result = 0 THEN TypeError ELSE <<"key", last'.result>>]
    /\ UNCHANGED <<coll, keyBy, state, ops>>

\* the programs with Records: the host, the property keys they use, whether
\* they nest Records, and how many Records they make
RecordPrograms ==
    {[host |-> h, vals |-> ks, nest |-> n, keys |-> IF n THEN MaxRecords + 1 ELSE MaxRecords] :
        h \in BOOLEAN, n \in BOOLEAN,
        ks \in {Strings, RecordUnregistered \cup {<<"str", 3>>},
                RecordRegistered \cup {<<"str", 3>>}}}

\* a program that builds MaxKeys - 1 keys from a primitive and uses them with
\* one collection
MapProgram ==
    [host |-> TRUE, vals |-> Objs \cup Prims, nest |-> FALSE, keys |-> MaxKeys - 1]


Loaded(p, n) ==
    /\ nodes = <<NewNode("GC", 0, Null)>>
    /\ tokens = <<>>
    /\ handles = <<>>
    /\ symbolsAsWeakMapKeys = p.host
    /\ userObjs = p.vals \cap Objs
    /\ pool = p.vals \ Objs
    /\ nesting = p.nest
    /\ budget = p.keys
    /\ gone = {}
    /\ last = Other
    /\ coll = "none"
    /\ keyBy = "none"
    /\ state = <<>>
    /\ ops = n
    /\ out = Idle
    /\ records = <<>>
    /\ numberForSymbol = EmptyMap

Init == \E p \in Programs : Loaded(p, 0)

Next ==
    \/ \E values \in SeqsUpTo(Values, MaxLen) : Construct(values) /\ UNCHANGED <<facade, recs>>
    \/ \E h \in 1..Len(handles) : DropKey(h) /\ UNCHANGED <<facade, recs>>
    \/ \E o \in Objs : DropObject(o) /\ UNCHANGED <<facade, recs>>
    \/ \E x \in Garbage : Collect(x) /\ UNCHANGED <<facade, recs>>
    \/ \E t \in 1..Len(tokens) : TokenFinalized(t) /\ UNCHANGED <<facade, recs>>
    \/ \E n \in 1..Len(nodes) : KeyFinalized(n) /\ UNCHANGED <<facade, recs>>

Spec == Init /\ [][Next]_vars

\* the collections: keys are built, one Map or Set is made and used
MapInit == Loaded(MapProgram, MaxOps)

MapNext ==
    \/ \E values \in SeqsUpTo(pool, 1) : Construct(values) /\ UNCHANGED <<facade, recs>>
    \/ \E c \in {"Map", "Set"}, cfg \in Configs :
          \E values \in InitialEntries(c) : NewCollection(c, cfg, values)
    \/ \E k \in MapKeys, v \in MapValues : Set(k, v)
    \/ \E v \in MapKeys : Add(v)
    \/ \E k \in MapKeys : Delete(k)
    \/ ForEach

MapSpec == MapInit /\ [][MapNext]_vars

\* brand checks: keys are built, and equal and the toStringTag getter are
\* called with keys and with other values
BrandInit == Loaded(MapProgram, MaxOps)

BrandNext ==
    \/ \E values \in SeqsUpTo(pool, 1) : Construct(values) /\ UNCHANGED <<facade, recs>>
    \/ \E a, b \in BrandValues : Equal(a, b)
    \/ \E v \in BrandValues : ToStringTag(v)

BrandSpec == BrandInit /\ [][BrandNext]_vars

\* Records: they are made, and their keys are taken
RecordInit == \E p \in RecordPrograms : Loaded(p, 0)

RecordNext ==
    \/ \E entries \in RecordArgs : Record(entries)
    \/ \E r \in 1..Len(records) : Record_keyBy(r)

RecordSpec == RecordInit /\ [][RecordNext]_vars

\* ---------------------------------------------------------------- claims
\* the node whose generateId minted the token a held key carries
Terminal(h) == tokens[handles[h].id].node

\* what a construction from the (canonical) sequence s would return now
Rebuilt(s) == getId(s)

\* C1: identity stability. While a key built from a sequence is still held, a
\* new construction from an equal sequence returns a key with the same token,
\* whatever drops, collections and finalization callbacks happened in between.
C1_IdentityStability ==
    \A h \in Held :
        /\ Rebuilt(handles[h].values).node # 0
        /\ Rebuilt(handles[h].values).id = handles[h].id

\* C2: reflexivity. Every construction returns a key, and a second construction
\* from the same sequence made right after it (no collection or finalization in
\* between) ends at the same terminal node and returns a key with the same token.
C2_Reflexivity ==
    last.op = "construct" =>
        /\ last.result # 0
        /\ Rebuilt(last.values).node = Terminal(last.result)
        /\ Rebuilt(last.values).id = handles[last.result].id

\* C3: structural discrimination. Two held keys built from sequences that
\* differ in an element or in length carry different tokens, and their
\* sequences end at different trie nodes.
C3_StructuralDiscrimination ==
    \A h1, h2 \in Held :
        handles[h1].values # handles[h2].values =>
            /\ ~equal(h1, h2)
            /\ Terminal(h1) # Terminal(h2)

\* two held keys built from different sequences, one of them just constructed
C3_Witness ==
    /\ last.op = "construct" /\ last.result # 0
    /\ \E h \in Held :
          /\ handles[h].values # last.values
          /\ Len(handles[h].values) = Len(last.values)
          /\ Len(last.values) = 2

IsPrefixOf(s, t) == Len(s) < Len(t) /\ s = SubSeq(t, 1, Len(s))

\* C4: no prefix collapse. A key built from s and a key built from an
\* extension of s are unequal, with the arguments of equal in either order.
C4_NoPrefixCollapse ==
    \A h1, h2 \in Held :
        IsPrefixOf(handles[h1].values, handles[h2].values) =>
            ~equal(h1, h2) /\ ~equal(h2, h1)

\* held keys for s and for an extension of s, with an eternal and with an
\* identity-bearing extra element
C4_Witness ==
    \E h1, h2, h3 \in Held :
        /\ Len(handles[h1].values) = 1
        /\ handles[h2].values = Append(handles[h1].values, handles[h1].values[1])
        /\ IsPrefixOf(handles[h1].values, handles[h3].values)
        /\ valueWithIdentity(handles[h2].values[2]) # valueWithIdentity(handles[h3].values[2])

\* C5: position matters. For distinct values a and b the keys built from
\* [a, b] and from [b, a] are unequal.
C5_PositionMatters ==
    \A h1, h2 \in Held :
        LET s == handles[h1].values
            t == handles[h2].values
        IN  (Len(s) = 2 /\ Len(t) = 2 /\ s[1] # s[2] /\ t = <<s[2], s[1]>>)
                => ~equal(h1, h2)

\* held keys for [a, b] and [b, a], a identity-bearing and b eternal
C5_Witness ==
    \E h1, h2 \in Held :
        LET s == handles[h1].values
            t == handles[h2].values
        IN  /\ Len(s) = 2 /\ Len(t) = 2 /\ s[1] # s[2] /\ t = <<s[2], s[1]>>
            /\ valueWithIdentity(s[1]) /\ ~valueWithIdentity(s[2])

Count(s, v) == Cardinality({i \in 1..Len(s) : s[i] = v})

\* t is a different arrangement of the values of s
Rearranged(s, t) ==
    /\ Len(s) = Len(t)
    /\ s # t
    /\ \A i \in 1..Len(s) : Count(s, s[i]) = Count(t, s[i])

Mixed(s) ==
    /\ \E i \in 1..Len(s) : valueWithIdentity(s[i])
    /\ \E i \in 1..Len(s) : ~valueWithIdentity(s[i])

\* C6: recursive equality. For a held key built from [x, ka] and held keys ka,
\* kb, the key built from [x, kb] is equal to it exactly when equal(ka, kb);
\* and no held key with a primitive, or with the components of ka, in the place
\* of ka is equal to it.
C6_RecursiveEquality ==
    \A k, ka, kb \in Held :
        LET s == handles[k].values
        IN  (Len(s) = 2 /\ s[2] = getKeyIdentity(<<"key", ka>>)) =>
                /\ (Rebuilt(<<s[1], <<"key", kb>>>>).id = handles[k].id)
                       <=> equal(ka, kb)
                /\ \A h \in Held :
                       ( \/ handles[h].values = <<s[1]>> \o handles[ka].values
                         \/ /\ Len(handles[h].values) = 2
                            /\ handles[h].values[1] = s[1]
                            /\ Kind(handles[h].values[2]) = "prim" )
                           => ~equal(k, h)

\* C7: mixed-category correctness. A held key built from a sequence mixing
\* identity-bearing and eternal values is equal to a second key built from the
\* same sequence, and unequal to every key built from a different arrangement
\* of the same values.
C7_MixedCategory ==
    \A h \in Held :
        Mixed(handles[h].values) =>
            /\ Rebuilt(handles[h].values).id = handles[h].id
            /\ \A g \in Held :
                   Rearranged(handles[h].values, handles[g].values) => ~equal(h, g)

\* nothing is held, nothing is left to collect and no callback is queued
Quiescent ==
    /\ Held = {}
    /\ userObjs = {}
    /\ Garbage = {}
    /\ \A t \in 1..Len(tokens) : tokens[t].st # "cleared"
    /\ \A n \in 1..Len(nodes) : nodes[n].pending = 0

\* C8: reclamation. Once every key and every object has been dropped, the
\* collector has run and every finalization callback has been delivered, the
\* root has no child left and no node but the root is retained.
C8_Reclamation ==
    Quiescent => (DOMAIN nodes[Root].nextNode = {} /\ Reachable.N = {Root})

\* everything was dropped and reclaimed after keys over GC nodes and eternal
\* nodes had been built
C8_Witness ==
    /\ Quiescent
    /\ Len(tokens) >= 2
    /\ \E n \in 1..Len(nodes) : nodes[n].kind = "Eternal" /\ nodes[n].keyInParent # transitionMarker
    /\ \E n \in 1..Len(nodes) : nodes[n].kind = "GC" /\ nodes[n].parent = Root

\* C9: every construction returns a fresh object, one that no earlier call of
\* the constructor returned, also when an earlier key holds the same token.
C9_FreshHandle ==
    [][(budget' < budget /\ last'.result # 0) => last'.result \notin 1..Len(handles)]_vars

\* the key just constructed carries the token of an older held key
C9_Witness ==
    /\ last.op = "construct" /\ last.result # 0
    /\ \E h \in Held : h # last.result /\ handles[h].id = handles[last.result].id

\* C10: CompositeKey.equal is an equivalence relation on the held keys, and it
\* holds exactly for the keys that carry the same token.
C10_EqualIsEquivalence ==
    \A a, b, c \in Held :
        /\ equal(a, a)
        /\ equal(a, b) <=> equal(b, a)
        /\ (equal(a, b) /\ equal(b, c)) => equal(a, c)
        /\ equal(a, b) <=> (handles[a].id = handles[b].id)

\* three held keys, two of them with one token and the third with another
C10_Witness ==
    \E a, b, c \in Held :
        a # b /\ handles[a].id = handles[b].id /\ handles[a].id # handles[c].id

\* ------------------------------------------------ claims on Map and Set
\* the collection was made with a keyBy function
Projecting == keyBy \in {"trySymbol", "prop"}

\* the representative the configured projection gives for k
Projected(k) == IF Projecting THEN keyByConfig(keyBy, k) ELSE k

\* representatives that the collection is to treat as one key
Equivalent(a, b) ==
    \/ SameValueZero(a) = SameValueZero(b)
    \/ isCompositeKey(a) /\ isCompositeKey(b) /\ equal(a[2], b[2])

\* C11: in a Map or Set made with a projection, right after set(k, v) or
\* add(k) every k2 whose representative is SameValueZero-equal to that of k, or
\* is a composite key equal to it, is found by has, and get returns v for it;
\* and an entry whose representative is a composite key is stored under the
\* identity token of that key.
C11_LookupByProjection ==
    Projecting =>
        /\ out.op \in {"set", "add"} =>
              \A k2 \in MapKeys :
                  Equivalent(Projected(out.k), Projected(k2)) =>
                      Map_has(k2) /\ (coll = "Map" => Map_get(k2) = out.v)
        /\ \A i \in 1..Len(state) :
              isCompositeKey(Projected(state[i].pair[1])) =>
                  state[i].key = getKeyIdentity(Projected(state[i].pair[1]))

\* an entry set under one carrier object is looked up through another carrier
\* whose composite key is a different, equal handle
C11_Witness ==
    /\ Projecting /\ out.op = "set"
    /\ Kind(out.k) = "wrap"
    /\ \E k2 \in MapKeys :
          /\ Kind(k2) = "wrap" /\ k2 # out.k
          /\ equal(k2[2], out.k[2])
          /\ Map_get(k2) = out.v

\* C12: in a Map or Set made with a projection, delete applies the projection
\* to its argument: right after delete(k) no entry with the projected key of k
\* is left, has(k) is false and get(k) is undefined.
C12_DeleteAppliesProjection ==
    (Projecting /\ out.op = "delete") =>
        ~Map_has(out.k) /\ Map_get(out.k) = Undefined

\* C13: keys, values, entries and the default iterator of a collection made
\* with a projection yield for every stored entry a key the program passed to
\* set or add, the one whose projection is the entry's internal key, never the
\* representative and never a token; right after set(k, v) or add(k) the
\* yielded key of that entry is k itself.
C13_IterationYieldsOriginalKeys ==
    Projecting =>
        /\ \A i \in 1..Len(state) :
              LET k == Map_keys[i]
              IN  /\ k \in MapKeys
                  /\ Kind(k) # "tok"
                  /\ SameValueZero(MapPolyfill_keyBy(keyBy, k)) = state[i].key
                  /\ Map_entries[i] = <<k, Map_values[i]>>
                  /\ Set_keys[i] = k
                  /\ coll = "Map" => Map_values[i] = Map_get(k)
                  /\ coll = "Set" => Set_entries[i] = <<k, k>>
        /\ out.op \in {"set", "add"} =>
              \E i \in 1..Len(state) :
                  Map_keys[i] = out.k /\ Map_entries[i] = <<out.k, out.v>>

\* an entry stored under a token whose original key is a carrier object
C13_Witness ==
    /\ Projecting /\ Len(state) = 2
    /\ \E i \in 1..Len(state) :
          Kind(state[i].key) = "tok" /\ Kind(Map_keys[i]) = "wrap"
    /\ \E i \in 1..Len(state) : state[i].key = Undefined \/ Kind(state[i].key) = "obj"

\* C14: in a Set made with a projection, adding a value whose projected key
\* equals that of a stored value leaves the set as it was: the same size and the
\* same first-inserted objects in iteration.
C14_SetKeepsFirstInserted ==
    [][\A v \in MapKeys :
          (Projecting /\ Add(v) /\ Map_has(v)) =>
              (Map_size' = Map_size /\ Set_keys' = Set_keys)]_vars

\* C15: a Map or Set made without a projection compares keys by host identity
\* (SameValueZero): has(k2) holds exactly when k2 itself was stored, so an equal
\* composite key that is another handle is another key, get returns the value
\* stored for that very key, and size counts the distinct identities.
C15_NoProjectionIsNative ==
    (coll # "none" /\ ~Projecting) =>
        /\ \A k2 \in MapKeys :
              /\ Map_has(k2) <=>
                     \E i \in 1..Len(state) : SameValueZero(Map_keys[i]) = SameValueZero(k2)
              /\ Map_has(k2) =>
                     \E i \in 1..Len(state) :
                         /\ SameValueZero(Map_keys[i]) = SameValueZero(k2)
                         /\ Map_get(k2) = Map_values[i]
        /\ Map_size = Cardinality({SameValueZero(Map_keys[i]) : i \in 1..Len(state)})
        /\ out.op \in {"set", "add"} => Map_has(out.k) /\ Map_get(out.k) = out.v

\* a composite key is stored and an equal composite key, another handle, is not
C15_Witness ==
    /\ coll = "Map" /\ ~Projecting
    /\ \E h1, h2 \in Held :
          /\ h1 # h2 /\ equal(h1, h2)
          /\ Map_has(<<"key", h1>>) /\ ~Map_has(<<"key", h2>>)
    /\ Map_size = 2

Produced == {<<"key", h>> : h \in 1..Len(handles)}

\* C17: the brand check holds exactly for the objects the CompositeKey
\* constructor produced; a call of CompositeKey.equal with an argument, or of
\* the toStringTag getter with a receiver, that is no such object throws a
\* TypeError instead of returning a value, and a call with composite keys
\* returns; either way the trie and the tokens are left as they were.
C17_BrandCheck ==
    [][(ops' < ops /\ out'.op \in {"equal", "toStringTag"}) =>
          /\ \A v \in BrandValues : isCompositeKey(v) <=> v \in Produced
          /\ nodes' = nodes /\ tokens' = tokens /\ handles' = handles
          /\ out'.op = "equal" =>
                /\ (out'.k \notin Produced \/ out'.v \notin Produced)
                       <=> out'.result = TypeError
                /\ (out'.k \in Produced /\ out'.v \in Produced) =>
                       (out'.result = True <=> equal(out'.k[2], out'.v[2]))
          /\ out'.op = "toStringTag" =>
                (out'.k \notin Produced <=> out'.result = TypeError)]_vars

\* equal was called with a composite key and a plain object and has thrown,
\* after keys had been built
C17_Witness ==
    /\ out.op = "equal" /\ out.result = TypeError
    /\ out.k \in Produced /\ Kind(out.v) \in {"obj", "wrap"}
    /\ Len(nodes) > 1

\* ----------------------------------------------------- claims on Records
OwnKeys(r) == {records[r].entries[i][1] : i \in 1..Len(records[r].entries)}

\* the properties of a Record as a function of its keys, a nested Record
\* standing for the identity of its key
Properties(r) ==
    LET es == records[r].entries
    IN  [k \in OwnKeys(r) |->
            LET v == es[CHOOSE i \in 1..Len(es) : es[i][1] = k][2]
            IN  IF Kind(v) = "rec" THEN getKeyIdentity(trySymbol(v)) ELSE v]

\* C18: Record keys do not depend on the insertion order of the properties.
\* For Records whose own keys are strings and non-registered symbols
\* Symbol.keyBy returns a key, and the keys of two Records are equal exactly
\* when the Records have the same own keys with equal values, nested Records
\* being compared through their keys.
C18_RecordOrderIndependence ==
    \A r1, r2 \in 1..Len(records) :
        ( /\ records[r1].called /\ records[r2].called
          /\ (OwnKeys(r1) \cup OwnKeys(r2)) \cap RecordRegistered = {} ) =>
            /\ records[r1].ck # 0
            /\ records[r2].ck # 0
            /\ (Properties(r1) = Properties(r2))
                   <=> equal(records[r1].ck, records[r2].ck)

\* C19: on every host, Symbol.keyBy of a Record with registered symbols as
\* keys returns a key, and the keys of two such Records are equal exactly when
\* the Records have the same own keys with equal values, whatever the
\* insertion order.
C19_RegisteredSymbolKeys ==
    \A r1, r2 \in 1..Len(records) :
        ( /\ records[r1].called /\ records[r2].called
          /\ OwnKeys(r1) \cap RecordRegistered # {}
          /\ OwnKeys(r2) \cap RecordRegistered # {} ) =>
            /\ records[r1].ck # 0
            /\ records[r2].ck # 0
            /\ (Properties(r1) = Properties(r2))
                   <=> equal(records[r1].ck, records[r2].ck)

\* ------------------------------------------------------ claims on purging
\* a finalization callback ran in this step
FinalizationStep ==
    \/ \E t \in 1..Len(tokens) : tokens[t].st = "cleared" /\ tokens'[t].st = "finalized"
    \/ \E n \in 1..Len(nodes) : nodes'[n].pending < nodes[n].pending

\* C20: purge precondition. Whenever a finalization callback, fresh or stale,
\* removes a node from its parent's child map, the removed node's own child map
\* is empty at that moment and its token, if it ever had one, is not alive.
C20_PurgePrecondition ==
    [][FinalizationStep =>
          \A p \in 1..Len(nodes) : \A k \in DOMAIN nodes[p].nextNode :
              k \notin DOMAIN nodes'[p].nextNode =>
                  LET removed == nodes[p].nextNode[k]
                  IN  /\ DOMAIN nodes'[removed].nextNode = {}
                      /\ size(nodes', removed) = 0
                      /\ nodes'[removed].id # 0 =>
                             tokens'[nodes'[removed].id].st # "live"]_vars

\* ------------------------------------------------- claims on the trie shape
RECURSIVE Connected(_, _)
\* node n hangs from the root of trie T: from n upwards every parent's
\* nextNode holds the node under its #keyInParent
Connected(T, n) ==
    \/ n = Root
    \/ /\ T[n].parent # 0
       /\ has(T, T[n].parent, T[n].keyInParent)
       /\ get(T, T[n].parent, T[n].keyInParent) = n
       /\ Connected(T, T[n].parent)

\* C21: reachability invariant. In every reachable state, for every held key
\* the node that minted its token hangs from the root by an unbroken chain of
\* nextNode entries, and the descent for the key's sequence ends at that node
\* and at no second one.
C21_ReachabilityInvariant ==
    \A h \in Held :
        /\ Connected(nodes, Terminal(h))
        /\ Rebuilt(handles[h].values).node = Terminal(h)

\* the nodes on which the callback delivered in this step runs examineSelf:
\* the held value of AbstractNode.#fr, or the node whose CountingWeakMap
\* counted down to zero
Examined ==
    {tokens[t].node : t \in {u \in 1..Len(tokens) :
                                tokens[u].st = "cleared" /\ tokens'[u].st = "finalized"}}
        \cup {n \in 1..Len(nodes) : nodes'[n].pending < nodes[n].pending /\ nodes[n].size = 1}

\* node n is not (or no longer) the entry its parent holds under #keyInParent
Stale(T, n) ==
    /\ T[n].parent # 0
    /\ ~(has(T, T[n].parent, T[n].keyInParent) /\ get(T, T[n].parent, T[n].keyInParent) = n)

RECURSIVE Ancestors(_, _)
\* the #parent chain of node n
Ancestors(T, n) ==
    IF T[n].parent = 0 THEN {} ELSE {T[n].parent} \cup Ancestors(T, T[n].parent)

\* C22: a finalization or onEmpty callback that runs examineSelf on a node
\* which is no longer the entry under its label in its parent's nextNode
\* removes neither the node that now occupies that label nor any ancestor of
\* that node which still has children or a live token.
C22_StaleCallbackHarmless ==
    [][\A n \in Examined :
          (Stale(nodes, n) /\ has(nodes, nodes[n].parent, nodes[n].keyInParent)) =>
              LET p == nodes[n].parent
                  k == nodes[n].keyInParent
                  occupant == get(nodes, p, k)
              IN  /\ has(nodes', p, k) /\ get(nodes', p, k) = occupant
                  /\ \A a \in Ancestors(nodes, occupant) :
                         ( /\ Connected(nodes, a)
                           /\ (size(nodes, a) # 0 \/ deref(nodes[a].id) # 0) ) =>
                             Connected(nodes', a)]_vars

RECURSIVE Labels(_, _)
\* the #keyInParent labels from the root down to node n
Labels(T, n) ==
    IF T[n].parent = 0 THEN <<>> ELSE Append(Labels(T, T[n].parent), T[n].keyInParent)

\* the (canonical) sequence whose descent ends at node n: the labels of the
\* GCNodes, or below a transition marker the labels of the EternalNodes with
\* each placeholder standing for the next GCNode label
PathSeq(T, n) ==
    LET L == Labels(T, n)
        M == {i \in 1..Len(L) : L[i] = transitionMarker}
    IN  IF M = {} THEN L
        ELSE LET m == CHOOSE i \in M : TRUE
                 G == SubSeq(L, 1, m - 1)
                 E == SubSeq(L, m + 1, Len(L))
             IN  [i \in 1..Len(E) |->
                     IF E[i] = GCPlaceHolder
                     THEN G[Cardinality({j \in 1..i : E[j] = GCPlaceHolder})]
                     ELSE E[i]]

\* the collector has nothing left to reclaim and no callback is queued
Settled ==
    /\ Garbage = {}
    /\ \A t \in 1..Len(tokens) : tokens[t].st # "cleared"
    /\ \A n \in 1..Len(nodes) : nodes[n].pending = 0

\* C23: nested-key stability. While a key built from a sequence containing a
\* nested key is held, once every handle of the nested key has been dropped
\* and collection and all finalization callbacks have run, a new construction
\* of the nested sequence returns the nested key's token again, and the
\* construction of the outer sequence with it returns the held key's token.
C23_NestedStability ==
    \A h \in Held : \A i \in 1..Len(handles[h].values) :
        LET v == handles[h].values[i]
        IN  ( /\ Kind(v) = "tok"
              /\ \A g \in Held : handles[g].id # v[2]
              /\ Settled ) =>
                /\ tokens[v[2]].st = "live"
                /\ LET inner == Rebuilt(PathSeq(nodes, tokens[v[2]].node))
                       outer == GCNode_getId(inner.T, Root, handles[h].values, 1, FALSE)
                   IN  /\ inner.id = v[2]
                       /\ outer.node # 0
                       /\ deref(outer.T[outer.node].id) = handles[h].id

\* C24: token minting. A construction that ends at a node whose token is still
\* alive returns that token and mints none; a token is minted only at a node
\* that had none or whose previous one had been collected; the node then
\* refers to the minted token; and no two live tokens were minted by one node.
C24_TokenMinting ==
    [][ /\ \A t1, t2 \in 1..Len(tokens') :
               ( /\ tokens'[t1].st = "live" /\ tokens'[t2].st = "live"
                 /\ tokens'[t1].node = tokens'[t2].node ) => t1 = t2
        /\ (budget' < budget /\ last'.result # 0) =>
               LET id == handles'[last'.result].id
                   n == tokens'[id].node
               IN  /\ tokens'[id].st = "live"
                   /\ nodes'[n].id = id
                   /\ (n <= Len(nodes) /\ deref(nodes[n].id) # 0) =>
                          (id = nodes[n].id /\ tokens' = tokens)
                   /\ id > Len(tokens) =>
                          (n > Len(nodes) \/ deref(nodes[n].id) = 0) ]_vars

\* a node minted a second token after its first one was collected, and two
\* held keys share the second
C24_Witness ==
    \E t1, t2 \in 1..Len(tokens) :
        /\ tokens[t1].st = "cleared" /\ tokens[t2].st = "live"
        /\ tokens[t1].node = tokens[t2].node
        /\ \E h1, h2 \in Held : h1 # h2 /\ handles[h1].id = t2 /\ handles[h2].id = t2

\* the callback of AbstractNode.#fr for a collected token ran in this step
TokenCallback(t) == tokens[t].st = "cleared" /\ tokens'[t].st = "finalized"

\* C25: handle-drop reclamation. When the finalization callback of a token is
\* delivered and no construction has given its node children or a new token in
\* between, the node is no longer an entry of its parent afterwards, and
\* neither is any ancestor below the root that is left with no counted child
\* and no live token, also while the components of the key are still in use.
C25_HandleDropReclamation ==
    [][\A t \in 1..Len(tokens) :
          LET n == tokens[t].node
          IN  ( /\ TokenCallback(t)
                /\ nodes[n].parent # 0
                /\ size(nodes, n) = 0
                /\ deref(nodes[n].id) = 0 ) =>
                  /\ Stale(nodes', n)
                  /\ \A a \in Ancestors(nodes, n) :
                         ( /\ nodes[a].parent # 0
                           /\ size(nodes', a) = 0
                           /\ (nodes'[a].id = 0 \/ tokens'[nodes'[a].id].st # "live") ) =>
                             Stale(nodes', a)]_vars

\* one walk has removed a terminal node and its parent, both under labels
\* that user code still references
C25_Witness ==
    /\ Len(tokens) = 1 /\ tokens[1].st = "finalized"
    /\ DOMAIN nodes[Root].nextNode = {}
    /\ \E n \in 1..Len(nodes) :
           /\ nodes[n].parent # 0 /\ nodes[n].parent # Root
           /\ nodes[n].id = 1
           /\ nodes[n].keyInParent \in userObjs
           /\ nodes[nodes[n].parent].keyInParent \in userObjs

\* ------------------------------------------------ claims on the classifier
\* the values a program can hand to the classifier
Classified ==
    Objs \cup Prims \cup RegisteredSymbols \cup UnregisteredSymbols
         \cup {Null, Undefined, PosZero}
         \cup {<<"key", h>> : h \in 1..Len(handles)}
         \cup {<<"tok", t>> : t \in 1..Len(tokens)}

\* C26: value classification. valueWithIdentity holds for every object and
\* function and, on a host that accepts symbols as WeakMap keys, for every
\* non-registered symbol; it fails for every other value, registered symbols
\* and the other primitives included; and every key of a GCNode's nextNode is
\* a value that can be held weakly.
C26_ValueClassification ==
    /\ \A v \in Classified :
           valueWithIdentity(v) <=>
               (isObject(v) \/ (symbolsAsWeakMapKeys /\ isSymbol(v) /\ ~isRegistered(v)))
    /\ \A n \in 1..Len(nodes) :
           nodes[n].kind = "GC" => \A k \in DOMAIN nodes[n].nextNode : CanBeHeldWeakly(k)

\* ----------------------------------------------- claims on the descent
\* the values the classification rule counts as identity-bearing: objects,
\* functions and, where the host holds them weakly, non-registered symbols
IdentityBearing(v) ==
    isObject(v) \/ (symbolsAsWeakMapKeys /\ isSymbol(v) /\ ~isRegistered(v))

RECURSIVE Kinds(_, _)
\* the kinds of the nodes from the root's child down to node n
Kinds(T, n) ==
    IF T[n].parent = 0 THEN <<>> ELSE Append(Kinds(T, T[n].parent), T[n].kind)

\* the edge labels the descent rule gives for the (canonical) sequence s
PathLabels(s) ==
    LET G == SelectSeq(s, IdentityBearing)
    IN  IF Len(G) = Len(s) THEN G
        ELSE G \o <<transitionMarker>>
               \o [i \in 1..Len(s) |-> IF IdentityBearing(s[i]) THEN GCPlaceHolder ELSE s[i]]

\* the node kinds along those edges
PathKinds(s) ==
    LET g == Len(SelectSeq(s, IdentityBearing))
    IN  [i \in 1..Len(PathLabels(s)) |-> IF i <= g THEN "GC" ELSE "Eternal"]

\* a construction returned a key in this step
Constructed == budget' < budget /\ last'.result # 0

\* C27: descent path. A construction from n values of which g are
\* identity-bearing ends at the node reached from the root by g GCNode edges
\* labelled with the identity-bearing values in order (a nested key by its
\* token) and, only if g < n, the transition marker edge and n EternalNode
\* edges labelled with the eternal values and the placeholder for the others;
\* it creates no node off that path, so no EternalNode when g = n.
C27_DescentPath ==
    [][Constructed =>
          LET s == last'.values
              n == tokens'[handles'[last'.result].id].node
          IN  /\ Labels(nodes', n) = PathLabels(s)
              /\ Kinds(nodes', n) = PathKinds(s)
              /\ Connected(nodes', n)
              /\ \A m \in (Len(nodes) + 1)..Len(nodes') :
                     m = n \/ m \in Ancestors(nodes', n)]_vars

\* the held keys built from the empty sequence
EmptyKeys == {h \in Held : handles[h].values = <<>>}

\* C28: empty sequence. A construction from the empty sequence ends at the
\* root and creates no node; it mints a token only when the root has none that
\* is alive; and all the keys of the empty sequence held at the same time
\* carry the same token.
C28_EmptySequence ==
    [][ /\ (Constructed /\ last'.values = <<>>) =>
               /\ tokens'[handles'[last'.result].id].node = Root
               /\ Len(nodes') = Len(nodes)
               /\ Len(tokens') > Len(tokens) => deref(nodes[Root].id) = 0
        /\ \A h1, h2 \in EmptyKeys' : handles'[h1].id = handles'[h2].id ]_vars

\* two keys of the empty sequence are held and share the second token of
\* the root, the first one having been collected
C28_Witness ==
    /\ Len(nodes) = 1 /\ Len(tokens) = 2
    /\ tokens[1].st # "live" /\ tokens[2].st = "live"
    /\ Cardinality(EmptyKeys) = 2

\* ------------------------------------------- claims on examineSelf at rest
\* no nextNode entry and no child count of the trie changes in this step
\* (the count of a map whose own callback ran aside)
TrieUnchanged ==
    /\ Len(nodes') = Len(nodes)
    /\ \A m \in 1..Len(nodes) :
           /\ nodes'[m].nextNode = nodes[m].nextNode
           /\ nodes'[m].pending = nodes[m].pending => nodes'[m].size = nodes[m].size

\* C29: examineSelf is a no-op whenever the examined node still has a counted
\* child or its token is alive: then no nextNode entry anywhere in the trie
\* changes and no ancestor is examined or purged.
C29_ExamineSelfNoOp ==
    [][\A n \in Examined :
          ( \/ (nodes'[n].pending = nodes[n].pending /\ size(nodes, n) # 0)
            \/ deref(nodes[n].id) # 0 ) => TrieUnchanged]_vars

\* the callback for the first token of a node below the root has run while
\* the node carried its second, live token: the node is still in place
C29_Witness ==
    /\ Len(nodes) = 2 /\ Len(tokens) = 2
    /\ nodes[Root].id = 0 /\ nodes[2].id = 2
    /\ tokens[1].st = "finalized" /\ tokens[2].st = "live"
    /\ Connected(nodes, 2)

\* -------------------------------------------------- claims on the root
\* C30: the root is never removed or replaced. It is the one node without a
\* parent and no nextNode holds it; every construction ends at a node that
\* hangs from it; and a finalization step, also one whose walk reaches the
\* root when it has no child and no live token, leaves the root in place with
\* the token reference it had.
C30_RootPersists ==
    [][ /\ nodes'[Root].parent = 0 /\ nodes'[Root].kind = "GC"
        /\ \A n \in 2..Len(nodes') :
               /\ nodes'[n].parent # 0
               /\ \A k \in DOMAIN nodes'[n].nextNode : nodes'[n].nextNode[k] # Root
        /\ \A k \in DOMAIN nodes'[Root].nextNode : nodes'[Root].nextNode[k] # Root
        /\ Constructed => Connected(nodes', tokens'[handles'[last'.result].id].node)
        /\ FinalizationStep =>
               /\ Len(nodes') = Len(nodes)
               /\ nodes'[Root].id = nodes[Root].id ]_vars

\* walks from below and the callback of the root's own token have reached
\* the root when it had no child and no live token
C30_Witness ==
    /\ Len(nodes) >= 2
    /\ nodes[Root].id # 0
    /\ \A t \in 1..Len(tokens) : tokens[t].st = "finalized"
    /\ DOMAIN nodes[Root].nextNode = {} /\ nodes[Root].size = 0
    /\ \A n \in 1..Len(nodes) : nodes[n].pending = 0

\* ------------------------------------------------ claims on the assertions
\* C31: internal assertions never fail. No construction throws the Error of
\* assert: AbstractNode.getId is reached only with index >= values.length, and
\* the token of every key a construction returns is alive, whatever
\* collections and callbacks happened before.
C31_AssertionsHold ==
    last.op = "construct" =>
        /\ last.error # "Error"
        /\ last.result # 0 => tokens[handles[last.result].id].st = "live"

\* a construction has just returned a key from a node whose earlier token
\* had been collected, after a finalization callback had run
C31_Witness ==
    /\ last.op = "construct" /\ last.result # 0
    /\ \E t \in 1..Len(tokens) :
           tokens[t].st = "cleared" /\ tokens[t].node = Terminal(last.result)
    /\ \E t \in 1..Len(tokens) : tokens[t].st = "finalized"

\* ------------------------------------------------- claims on termination
RECURSIVE EternalNode_getIdSteps(_, _)
\* the calls of getId that EternalNode.getId(values, index) makes, itself and
\* the final super.getId included
EternalNode_getIdSteps(values, index) ==
    IF index > Len(values) THEN 2
    ELSE 1 + EternalNode_getIdSteps(values, index + 1)

RECURSIVE GCNode_getIdSteps(_, _, _, _, _)
\* the calls of getId that GCNode.getId(values, index, seenEternal) on node n
\* makes, itself included, up to its return or the TypeError of the WeakMap
GCNode_getIdSteps(T, n, values, index, seenEternal) ==
    IF index > Len(values) THEN
        IF seenEternal THEN 1 + EternalNode_getIdSteps(values, 1) ELSE 2
    ELSE IF ~valueWithIdentity(values[index]) THEN
        1 + GCNode_getIdSteps(T, n, values, index + 1, TRUE)
    ELSE
        LET r == mapGetOrInsert(T, n, values[index], "GC")
        IN  IF r.v = 0 THEN 1
            ELSE 1 + GCNode_getIdSteps(r.T, r.v, values, index + 1, seenEternal)

RECURSIVE examineSelfSteps(_, _), purgeSteps(_, _, _), decrementSteps(_, _), deleteSteps(_, _, _)
\* the calls of examineSelf and purge that examineSelf on node n makes, itself
\* included
examineSelfSteps(T, n) ==
    IF size(T, n) # 0 THEN 1
    ELSE IF deref(T[n].id) # 0 THEN 1
    ELSE IF T[n].parent = 0 THEN 1
    ELSE 1 + purgeSteps(T, T[n].parent, T[n].keyInParent)

\* a purge that examines its node a second time
purgeSteps_examinesTwice(T, n, key) ==
    1 + deleteSteps(T, n, key) + 2 * examineSelfSteps(delete(T, n, key), n)

\* those that purge makes: the ones inside nextNode.delete (through onEmpty),
\* then the ones of its own examineSelf
purgeSteps(T, n, key) ==
    1 + deleteSteps(T, n, key) + examineSelfSteps(delete(T, n, key), n)

\* a #decrement that calls onEmpty whatever the size
decrementSteps_everyTime(T, n) ==
    examineSelfSteps([T EXCEPT ![n].size = @ - 1], n)

\* those that CountingWeakMap.#decrement makes through onEmpty
decrementSteps(T, n) ==
    LET T1 == [T EXCEPT ![n].size = @ - 1]
    IN  IF T1[n].size = 0 THEN examineSelfSteps(T1, n) ELSE 0

\* those that nextNode.delete makes
deleteSteps(T, n, k) ==
    IF ~has(T, n, k) THEN 0
    ELSE IF T[n].kind = "GC"
         THEN decrementSteps([T EXCEPT ![n].nextNode = MapRemove(@, k)], n)
         ELSE 0

\* the number of edges between the root and node n
Depth(T, n) == Len(Labels(T, n))

\* C32: termination. Every descent makes at most 2 * (length + 1) + 1 calls of
\* getId, and every walk started by a token finalization or by an onEmpty
\* notification makes at most (depth + 1)^2 calls of examineSelf and purge,
\* depth being that of the node it starts at, the re-entrant examineSelf that
\* nextNode.delete triggers inside purge included.
C32_Termination ==
    [][ /\ budget' < budget =>
               GCNode_getIdSteps(nodes, Root, last'.values, 1, FALSE)
                   <= 2 * (Len(last'.values) + 1) + 1
        /\ \A t \in 1..Len(tokens) :
               TokenCallback(t) =>
                   LET n == tokens[t].node
                   IN  examineSelfSteps(nodes, n)
                           <= (Depth(nodes, n) + 1) * (Depth(nodes, n) + 1)
        /\ \A n \in 1..Len(nodes) :
               nodes'[n].pending < nodes[n].pending =>
                   decrementSteps(nodes, n)
                       <= (Depth(nodes, n) + 1) * (Depth(nodes, n) + 1) ]_vars

\* one walk has gone from a GCNode two edges below the root up to the root,
\* through the onEmpty of both CountingWeakMaps on its way
C32_Witness ==
    /\ Len(tokens) = 1 /\ tokens[1].st = "finalized"
    /\ Len(nodes) = 3
    /\ nodes[3].id = 1 /\ nodes[3].kind = "GC" /\ nodes[3].parent = 2
    /\ nodes[2].kind = "GC" /\ nodes[2].parent = Root
    /\ nodes[2].size = 0 /\ nodes[Root].size = 0
    /\ nodes[2].keyInParent \in userObjs

\* ----------------------------------------------- one CountingWeakMap
\* A client works on a single CountingWeakMap, the nextNode of a GCNode
\* without parent (onEmpty is its examineSelf): it sets and deletes keys it
\* holds, lets go of keys, the collector reclaims them and #fr delivers the
\* callbacks. out records the latest call: v is what delete returned, result
\* the number of calls of onEmpty it made.
CountKeys == {<<"obj", i>> : i \in 1..MaxCountKeys}

CountValues == {2, 3}

Fired(c) == <<"fired", c>>

CountInit ==
    /\ nodes = <<NewNode("GC", 0, Null)>>
    /\ tokens = <<>>
    /\ handles = <<>>
    /\ symbolsAsWeakMapKeys = TRUE
    /\ userObjs = CountKeys
    /\ pool = {}
    /\ nesting = FALSE
    /\ budget = 0
    /\ gone = {}
    /\ last = Other
    /\ coll = "none"
    /\ keyBy = "none"
    /\ state = <<>>
    /\ ops = MaxCountOps
    /\ out = Idle
    /\ records = <<>>
    /\ numberForSymbol = EmptyMap

\* map.set(k, v)
CountSet(k, v) ==
    /\ ops > 0
    /\ k \in userObjs
    /\ ops' = ops - 1
    /\ nodes' = set(nodes, Root, k, v)
    /\ out' = [op |-> "set", k |-> k, v |-> Null, result |-> Fired(0)]
    /\ UNCHANGED <<symbolsAsWeakMapKeys, tokens, handles, userObjs, gone, pool, nesting,
                   budget, last, coll, keyBy, state, recs>>

\* map.delete(k)
CountDelete(k) ==
    /\ ops > 0
    /\ k \in userObjs
    /\ ops' = ops - 1
    /\ nodes' = delete(nodes, Root, k)
    /\ out' = [op |-> "delete", k |-> k,
               v |-> IF has(nodes, Root, k) THEN True ELSE False,
               result |-> Fired(deleteSteps(nodes, Root, k))]
    /\ UNCHANGED <<symbolsAsWeakMapKeys, tokens, handles, userObjs, gone, pool, nesting,
                   budget, last, coll, keyBy, state, recs>>

\* the client lets go of key k
CountDrop(k) ==
    /\ k \in userObjs
    /\ userObjs' = userObjs \ {k}
    /\ out' = [op |-> "drop", k |-> k, v |-> Null, result |-> Fired(0)]
    /\ UNCHANGED <<symbolsAsWeakMapKeys, nodes, tokens, handles, gone, pool, nesting,
                   budget, last, coll, keyBy, state, ops, recs>>

\* the collector reclaims key k, which nothing references any more
CountReclaim(k) ==
    /\ k \in CountKeys \ (userObjs \cup gone)
    /\ gone' = gone \cup {k}
    /\ nodes' = Reclaim(nodes, k)
    /\ out' = [op |-> "reclaim", k |-> k, v |-> Null, result |-> Fired(0)]
    /\ UNCHANGED <<symbolsAsWeakMapKeys, tokens, handles, userObjs, pool, nesting,
                   budget, last, coll, keyBy, state, ops, recs>>

\* #fr delivers one queued callback: () => this.#decrement()
CountNotify ==
    /\ nodes[Root].pending > 0
    /\ nodes' = decrement([nodes EXCEPT ![Root].pending = @ - 1], Root)
    /\ out' = [op |-> "notify", k |-> Null, v |-> Null,
               result |-> Fired(decrementSteps(nodes, Root))]
    /\ UNCHANGED <<symbolsAsWeakMapKeys, tokens, handles, userObjs, gone, pool, nesting,
                   budget, last, coll, keyBy, state, ops, recs>>

CountNext ==
    \/ \E k \in CountKeys, v \in CountValues : CountSet(k, v)
    \/ \E k \in CountKeys : CountDelete(k)
    \/ \E k \in CountKeys : CountDrop(k)
    \/ \E k \in CountKeys : CountReclaim(k)
    \/ CountNotify

CountSpec == CountInit /\ [][CountNext]_vars

\* ------------------------------------------- claims on CountingWeakMap
\* the entries of the map whose keys have not been reclaimed
LiveEntries(T, n) == DOMAIN T[n].nextNode

\* C33 as stated: in every state size is the number of entries whose keys have
\* not been reclaimed.
C33_SizeCountsLiveEntries ==
    size(nodes, Root) = Cardinality(LiveEntries(nodes, Root))

\* C33: size is the number of entries whose keys have not been reclaimed
\* whenever no callback of #fr is queued; set of a new key raises it by one
\* and set of an existing key leaves it as it is; a reclaimed key's entry is
\* counted until its callback has been delivered, and no longer.
C33_SizeCountsLiveEntriesOnceNotified ==
    [][ /\ nodes'[Root].pending = 0 =>
               size(nodes', Root) = Cardinality(LiveEntries(nodes', Root))
        /\ out'.op = "set" /\ ops' < ops =>
               size(nodes', Root) =
                   size(nodes, Root) + (IF has(nodes, Root, out'.k) THEN 0 ELSE 1)
        /\ out'.op = "reclaim" /\ gone' # gone => size(nodes', Root) = size(nodes, Root)
        /\ out'.op = "notify" /\ nodes'[Root].pending < nodes[Root].pending =>
               size(nodes', Root) = size(nodes, Root) - 1 ]_vars

\* after three calls of the client a key of the map was reclaimed and its
\* callback has run; one entry is left and counted
C33_Witness ==
    /\ out.op = "notify"
    /\ nodes[Root].pending = 0
    /\ size(nodes, Root) = 1
    /\ gone # {}
    /\ ops <= MaxCountOps - 3

\* C34: onEmpty is called exactly once in every step that takes size from 1
\* to 0, be it a delete or the callback for a reclaimed key, and in no other
\* step: not by a set, and not by a decrement that leaves size above 0.
C34_OnEmptyOncePerTransition ==
    [][ IF size(nodes, Root) = 1 /\ size(nodes', Root) = 0
        THEN out'.result = Fired(1)
        ELSE out'.result = Fired(0) ]_vars

\* the callback for a reclaimed key has taken size from 1 to 0 and called
\* onEmpty once
C34_Witness ==
    /\ out.op = "notify" /\ out.result = Fired(1)
    /\ size(nodes, Root) = 0
    /\ LiveEntries(nodes, Root) = {}

\* C35: delete(k) lowers size by one exactly when it removed an entry, which
\* is when it returns true; and the collection of a key queues a callback of
\* #fr only if the key still has its entry, so a key that was deleted is not
\* counted down a second time when it is collected later.
C35_DeleteCancelsNotification ==
    [][ /\ out'.op = "delete" /\ ops' < ops =>
               /\ out'.v = (IF has(nodes, Root, out'.k) THEN True ELSE False)
               /\ ~has(nodes', Root, out'.k)
               /\ size(nodes', Root) =
                      size(nodes, Root) - (IF has(nodes, Root, out'.k) THEN 1 ELSE 0)
        /\ out'.op = "reclaim" /\ gone' # gone =>
               nodes'[Root].pending =
                   nodes[Root].pending + (IF has(nodes, Root, out'.k) THEN 1 ELSE 0) ]_vars

\* a delete has removed an entry and lowered size while the callback for
\* another, reclaimed key is still queued
C35_Witness ==
    /\ out.op = "delete" /\ out.v = True
    /\ nodes[Root].pending = 1
    /\ size(nodes, Root) = 1
    /\ LiveEntries(nodes, Root) = {}

\* ------------------------------------------------------ CompositeKey.of
\* the values a program passes to CompositeKey.of: objects, primitives,
\* composite keys and objects whose Symbol.keyBy method returns one
OfValues ==
    userObjs \cup pool \cup {<<"key", h>> : h \in Held} \cup {<<"wrap", h>> : h \in Held}

\* CompositeKey.of(...values): new CompositeKey(...values.map(trySymbol))
Of(values) ==
    /\ Construct([i \in 1..Len(values) |-> trySymbol(values[i])])
    /\ out' = [op |-> "of", k |-> values, v |-> Null,
               result |-> IF last'.result = 0 THEN TypeError ELSE <<"key", last'.result>>]
    /\ UNCHANGED <<coll, keyBy, state, ops, recs>>

OfInit == Loaded([MapProgram EXCEPT !.keys = MaxKeys], 0)

OfNext ==
    \/ \E values \in SeqsUpTo(pool \cup userObjs, 1) :
          Construct(values) /\ UNCHANGED <<facade, recs>>
    \/ \E values \in SeqsUpTo(OfValues, MaxLen) : Of(values)

OfSpec == OfInit /\ [][OfNext]_vars

\* the value has a Symbol.keyBy method: composite keys and the objects made
\* to carry one
Projects(v) == Kind(v) \in {"key", "wrap"}

\* what that method returns
Projection(v) == <<"key", v[2]>>

\* the sequence with every value that has the method replaced by its result
Canonicalized(values) ==
    [i \in 1..Len(values) |->
        IF Projects(values[i]) THEN Projection(values[i]) ELSE values[i]]

\* C36: canonicalization. trySymbol returns the result of the value's
\* Symbol.keyBy method when the value is an object that has one, and the value
\* itself otherwise; for a composite key it returns that key; and
\* CompositeKey.of(v1, .., vn) returns a key equal to
\* new CompositeKey(trySymbol(v1), .., trySymbol(vn)).
C36_Canonicalization ==
    /\ \A v \in OfValues \cup {Undefined, Null} :
           /\ trySymbol(v) = (IF Projects(v) THEN Projection(v) ELSE v)
           /\ isCompositeKey(v) => trySymbol(v) = v
    /\ out.op = "of" =>
           /\ out.result # TypeError
           /\ Rebuilt(Canonicalized(out.k)).id = handles[out.result[2]].id

\* CompositeKey.of has returned a key for two values one of which is an
\* object whose Symbol.keyBy method returns a composite key
C36_Witness ==
    /\ out.op = "of" /\ out.result # TypeError
    /\ Len(out.k) = 2
    /\ \E i \in 1..2 : Kind(out.k[i]) = "wrap"
    /\ \E i \in 1..2 : Kind(out.k[i]) = "prim"

\* C37: identity tokens never escape to user code. No operation of a Map or
\* Set returns a token, no iteration (keys, values, entries) yields one, and
\* no call of a forEach mapper receives one, as this value, as argument or as
\* element of an argument that is a stored pair.
C37_TokensNeverEscape ==
    LET IsToken(v) == Kind(v) = "tok"
        Handed(call) ==
            {call.this} \cup {call.args[j] : j \in 1..Len(call.args)}
                \cup UNION {{call.args[j][2], call.args[j][3]} :
                                j \in {i \in 1..Len(call.args) : Kind(call.args[i]) = "pair"}}
    IN  /\ ~IsToken(out.result)
        /\ \A i \in 1..Len(state) :
               /\ ~IsToken(Map_keys[i]) /\ ~IsToken(Map_values[i])
               /\ ~IsToken(Map_entries[i][1]) /\ ~IsToken(Map_entries[i][2])
        /\ out.op = "forEach" =>
               \A i \in 1..Len(out.result[2]) :
                   \A v \in Handed(out.result[2][i]) : ~IsToken(v)

\* C38: frame of a construction. A construction, whether it returns or
\* throws, removes no node and changes no existing child-map entry; the nodes
\* it adds lie on one path, each of them the child of an older node or of the
\* node added just before, and on the descent path of the terminal node when
\* it returns; it changes no existing token, mints at most one, and that one
\* at its terminal node; it leaves the token of every node whose token is
\* alive in place; and when its terminal node already holds a live token it
\* changes nothing in the trie.
C38_ConstructionFrame ==
    [][budget' < budget =>
        LET Added == (Len(nodes) + 1)..Len(nodes')
        IN
          /\ Len(nodes') >= Len(nodes)
          /\ \A m \in 1..Len(nodes) :
                 /\ \A k \in DOMAIN nodes[m].nextNode :
                        /\ k \in DOMAIN nodes'[m].nextNode
                        /\ nodes'[m].nextNode[k] = nodes[m].nextNode[k]
                 /\ nodes'[m].parent = nodes[m].parent
                 /\ nodes'[m].keyInParent = nodes[m].keyInParent
                 /\ deref(nodes[m].id) # 0 => nodes'[m].id = nodes[m].id
          /\ \A m \in Added :
                 /\ nodes'[m].parent <= Len(nodes) \/ nodes'[m].parent = m - 1
                 /\ \A m2 \in Added : m2 < m => m2 \in Ancestors(nodes', m)
                 /\ has(nodes', nodes'[m].parent, nodes'[m].keyInParent)
                 /\ get(nodes', nodes'[m].parent, nodes'[m].keyInParent) = m
          /\ Len(tokens') \in {Len(tokens), Len(tokens) + 1}
          /\ \A t \in 1..Len(tokens) : tokens'[t] = tokens[t]
          /\ last'.result = 0 => tokens' = tokens
          /\ last'.result # 0 =>
                 LET id == handles'[last'.result].id
                     n == tokens'[id].node
                 IN  /\ \A m \in Added : m = n \/ m \in Ancestors(nodes', n)
                     /\ Len(tokens') > Len(tokens) => id = Len(tokens')
                     /\ (n <= Len(nodes) /\ deref(nodes[n].id) # 0) =>
                            (nodes' = nodes /\ tokens' = tokens)]_vars

\* a second key was built from two values while the first one was held: both
\* carry the token of the same terminal node, two levels below the root
C38_Witness ==
    /\ last.op = "construct" /\ last.result # 0 /\ Len(last.values) = 2
    /\ \E h \in Held : h < last.result /\ handles[h].id = handles[last.result].id
    /\ last.result \in Held
    /\ Depth(nodes, tokens[handles[last.result].id].node) >= 2

\* C39: size is never negative, and in every state it is the number of
\* entries still present in the weak map plus the number of entries whose keys
\* were reclaimed and whose callback #fr has not delivered yet.
C39_SizeAccounting ==
    /\ size(nodes, Root) >= 0
    /\ size(nodes, Root) = Cardinality(LiveEntries(nodes, Root)) + nodes[Root].pending

\* one key of the map has been reclaimed and its callback is still queued
\* while another entry is present: size is 2
C39_Witness ==
    /\ out.op = "reclaim"
    /\ nodes[Root].pending = 1
    /\ Cardinality(LiveEntries(nodes, Root)) = 1
    /\ size(nodes, Root) = 2

====
